---- MODULE Spec2Model ----
(***************************************************************************)
(* Instance registry (WAMonitoringService.waInstances), health aggregator  *)
(* (HealthService) and health surface (HealthController) of evolution-api. *)
(*                                                                         *)
(* One invocation of HealthService.getHealthStatus is in flight at a time; *)
(* it is cut into one action per suspension point (each await), so that    *)
(* registry operations interleave with it exactly where the event loop     *)
(* lets them.  Dependencies (database, cache, configuration, process       *)
(* introspection) answer nondeterministically: resolve, reject with a      *)
(* message, or never settle.                                               *)
(***************************************************************************)
EXTENDS Naturals, Sequences, FiniteSets, TLC

VARIABLES
    waInstances,     \* WAMonitoringService.waInstances: name -> handle state
    store,           \* persistent store: name -> clientName of its Instance record
    pc,              \* position of the getHealthStatus invocation
    caller,          \* who awaits the invocation
    stuck,           \* the awaited dependency operation will never settle
    databaseHealth,  \* local of getHealthStatus
    redisHealth,     \* local of getHealthStatus
    instanceStats,   \* local of getHealthStatus
    caught,          \* error.message bound by the catch of getHealthStatus
    healthStatus,    \* value getHealthStatus resolved to
    rejection,       \* error.message getHealthStatus rejected with
    response,        \* what the controller sent
    metrics,         \* lines of the text HealthService.getMetrics resolved to
    cacheOps,        \* cache operations checkRedisHealth has issued so far
    previous,        \* the HealthStatus the preceding call resolved to
    cpc,             \* position of the create / delete operation in flight
    cname,           \* its instance name
    cresult,         \* outcome of the last create / delete
    rpc,             \* position of the lookup in flight
    rop,             \* the lookup: instanceInfo or instanceInfoById
    rargs,           \* its arguments
    rnames,          \* instanceNames handed to instanceInfo
    rresult,         \* its outcome
    lpc,             \* position of loadInstance, the hydration at boot
    lqueue,          \* names of the entries loadInstance has still to resolve
    now,             \* Date.now(), in milliseconds since the process started
    cache,           \* the cache: the keys it holds, each with its expiry
    probes,          \* the checkRedisHealth invocations, overlapping in time
    spc,             \* position of SettingsService.find
    sfound,          \* what the handle's findSettings settled with
    sresult          \* what find settled with

hvars == <<pc, caller, stuck, databaseHealth, redisHealth, instanceStats,
           caught, healthStatus, rejection, response, metrics, cacheOps,
           previous>>
cvars == <<cpc, cname, cresult>>
rvars == <<rpc, rop, rargs, rnames, rresult>>
lvars == <<lpc, lqueue>>
kvars == <<now, cache, probes>>
svars == <<spc, sfound, sresult>>
vars == <<waInstances, store, hvars, cvars, rvars, lvars, kvars, svars>>

(***************************************************************************)
(* Bounds                                                                  *)
(***************************************************************************)
MaxNames == 2
MaxLookup == 2
MaxMs == 1
MaxSeconds == 1

NameStr == <<"a", "b", "c", "d">>
Names == {NameStr[i] : i \in 1..MaxNames}

(***************************************************************************)
(* Values                                                                  *)
(***************************************************************************)
Absent == "absent"
NoMsg == "none"

\* connectionStatus.state of a loaded handle; NoState: a handle without
\* connectionStatus
NoState == "nostate"
ConnectionStates == {"open", "close", "connecting"}
HandleStates == ConnectionStates \cup {NoState}

\* messages of the exceptions the dependencies raise
DbErrors == {"Connection failed"}
CacheErrors == {"Redis connection failed"}
ConfigErrors == {"Cannot read properties of undefined (reading 'REDIS')"}
ProcessErrors == {"Process error"}

NoProbe == [status |-> "none", responseTime |-> Absent, error |-> NoMsg]
NoStats == [total |-> 0, active |-> 0, inactive |-> 0]
NoResult == [status |-> "none"]
NoResponse == [code |-> 0]
NoOutcome == [kind |-> "none"]
NoMetrics == <<>>
NoKey == "nokey"
IdleProbe == [pc |-> "idle", testKey |-> NoKey, got |-> "none", result |-> NoProbe]

\* the health checks whose cache probes may overlap: a check and a rival one;
\* each is followed by further checks once it is over
Probes == {"check", "rival"}

Version == "2.3.0"
SystemInfo == [nodeVersion |-> "process.version", platform |-> "process.platform",
               arch |-> "process.arch"]
\* one reading of process.memoryUsage()
MemUsage == [heapUsed |-> 1, heapTotal |-> 2, external |-> 0]

(***************************************************************************)
(* HealthService: pure parts                                               *)
(***************************************************************************)
\* the value checkDatabaseHealth resolves to when $queryRaw settled with o
DatabaseHealthOf(o) ==
    IF o = "ok"
    THEN [status |-> "connected", responseTime |-> "measured", error |-> NoMsg]
    ELSE [status |-> "error", responseTime |-> "measured", error |-> o]

\* the values checkRedisHealth resolves to
RedisDisabled == [status |-> "disabled", responseTime |-> Absent, error |-> NoMsg]
RedisConnected == [status |-> "connected", responseTime |-> "measured", error |-> NoMsg]
\* mutant: a failing cache operation is reported under a generic text
RedisError_Generic(msg) ==
    [status |-> "error", responseTime |-> "measured", error |-> "Redis health check failed"]

RedisError(msg) == [status |-> "error", responseTime |-> "measured", error |-> msg]

\* mutant: a cache that is not connected (also a disabled one) degrades
determineOverallStatus_AnyCacheTrouble(db, redis) ==
    IF db.status # "connected" THEN "unhealthy"
    ELSE IF redis.status # "connected" THEN "degraded"
    ELSE "healthy"

determineOverallStatus(db, redis) ==
    IF db.status # "connected" THEN "unhealthy"
    ELSE IF redis.status = "error" THEN "degraded"
    ELSE "healthy"

\* mutant: a handle that is connecting counts as active too
IsActive_ConnectingToo(h) == h \in {"open", "connecting"}

\* instance?.connectionStatus?.state === 'open'
IsActive(h) == h = "open"

\* mutant: only handles in state 'close' are counted inactive
CountInstances_OnlyClosedInactive(table) ==
    LET instances == {n \in DOMAIN table : table[n] # Absent}
        active == Cardinality({n \in instances : table[n] = "open"})
        inactive == Cardinality({n \in instances : table[n] = "close"})
    IN  [total |-> Cardinality(instances), active |-> active, inactive |-> inactive]

\* the loop of getInstanceStatistics over Object.keys(waInstances)
CountInstances(table) ==
    LET instances == {n \in DOMAIN table : table[n] # Absent}
        active == Cardinality({n \in instances : IsActive(table[n])})
        inactive == Cardinality({n \in instances : ~IsActive(table[n])})
    IN  [total |-> Cardinality(instances), active |-> active, inactive |-> inactive]

\* Math.round((used / total) * 100)
RoundPercent(used, total) == (200 * used + total) \div (2 * total)

getMemoryUsage(m) ==
    [used |-> m.heapUsed,
     total |-> m.heapTotal + m.external,
     percentage |-> RoundPercent(m.heapUsed, m.heapTotal + m.external)]

\* mutant: once a status has been handed out it is kept and served again
BuildHealthStatus_Cached(db, redis, stats) ==
    IF previous # NoResult THEN previous
    ELSE [status |-> determineOverallStatus(db, redis),
          version |-> Version,
          timestamp |-> "now",
          uptime |-> "sinceStart",
          database |-> db,
          redis |-> redis,
          instances |-> stats,
          memory |-> getMemoryUsage(MemUsage),
          system |-> SystemInfo]

\* mutant: the verdict is settled as soon as the database probe is in,
\* without waiting for the cache probe
BuildHealthStatus_DatabaseDecides(db, redis, stats) ==
    [status |-> IF db.status # "connected" THEN "unhealthy" ELSE "healthy",
     version |-> Version,
     timestamp |-> "now",
     uptime |-> "sinceStart",
     database |-> db,
     redis |-> redis,
     instances |-> stats,
     memory |-> getMemoryUsage(MemUsage),
     system |-> SystemInfo]

\* the HealthStatus built on the normal path
BuildHealthStatus(db, redis, stats) ==
    [status |-> determineOverallStatus(db, redis),
     version |-> Version,
     timestamp |-> "now",
     uptime |-> "sinceStart",
     database |-> db,
     redis |-> redis,
     instances |-> stats,
     memory |-> getMemoryUsage(MemUsage),
     system |-> SystemInfo]

\* mutant: the catch branch reports a fixed text
FallbackMessage_Fixed(msg) == "Health check failed"

\* the message the catch branch of getHealthStatus reports for error
FallbackMessage(msg) == msg

\* the HealthStatus built by the catch branch of getHealthStatus
FallbackStatus(msg) ==
    [status |-> "unhealthy",
     version |-> Version,
     timestamp |-> "now",
     uptime |-> "sinceStart",
     database |-> [status |-> "error", responseTime |-> Absent,
                   error |-> FallbackMessage(msg)],
     redis |-> [status |-> "error", responseTime |-> Absent,
                error |-> FallbackMessage(msg)],
     instances |-> [total |-> 0, active |-> 0, inactive |-> 0],
     memory |-> getMemoryUsage(MemUsage),
     system |-> SystemInfo]

HealthStatusFields ==
    {"status", "version", "timestamp", "uptime", "database", "redis",
     "instances", "memory", "system"}

(***************************************************************************)
(* HealthController: pure parts                                            *)
(***************************************************************************)
\* mutant: only 'healthy' answers 200
getHttpStatusFromHealth_DegradedUnavailable(status) ==
    CASE status = "healthy" -> 200
      [] OTHER -> 503

getHttpStatusFromHealth(status) ==
    CASE status = "healthy" -> 200
      [] status = "degraded" -> 200
      [] status = "unhealthy" -> 503
      [] OTHER -> 503

\* mutant: the body carries the message of the error that was caught
ErrorResponse_RawMessage ==
    [status |-> "unhealthy",
     version |-> Version,
     timestamp |-> "now",
     uptime |-> 0,
     database |-> [status |-> "error", responseTime |-> Absent,
                   error |-> rejection],
     redis |-> [status |-> "error", responseTime |-> Absent,
                error |-> rejection],
     instances |-> [total |-> 0, active |-> 0, inactive |-> 0],
     memory |-> [used |-> 0, total |-> 0, percentage |-> 0],
     system |-> SystemInfo]

\* errorResponse of the catch branch of getHealth
ErrorResponse ==
    [status |-> "unhealthy",
     version |-> Version,
     timestamp |-> "now",
     uptime |-> 0,
     database |-> [status |-> "error", responseTime |-> Absent,
                   error |-> "Health check failed"],
     redis |-> [status |-> "error", responseTime |-> Absent,
                error |-> "Health check failed"],
     instances |-> [total |-> 0, active |-> 0, inactive |-> 0],
     memory |-> [used |-> 0, total |-> 0, percentage |-> 0],
     system |-> SystemInfo]

\* mutant: readiness follows the overall status
IsReady_OverallHealthy(hs) == hs.status = "healthy"

\* healthStatus.database.status === 'connected'
IsReady(hs) == hs.database.status = "connected"

\* the response of getReadiness for an obtained HealthStatus
ReadinessResponse(hs) ==
    IF IsReady(hs)
    THEN [code |-> 200,
          body |-> [status |-> "ready", reason |-> Absent, error |-> Absent]]
    ELSE [code |-> 503,
          body |-> [status |-> "not ready", reason |-> "Database not connected",
                    error |-> Absent]]

\* the response of the catch branch of getReadiness
ReadinessFailure(msg) ==
    [code |-> 503,
     body |-> [status |-> "not ready", reason |-> "Health check failed",
               error |-> msg]]

(***************************************************************************)
(* Initial state: the services just constructed, nothing loaded            *)
(***************************************************************************)
Boot ==
    /\ waInstances = [n \in Names |-> Absent]
    /\ pc = "idle"
    /\ caller = "none"
    /\ stuck = FALSE
    /\ databaseHealth = NoProbe
    /\ redisHealth = NoProbe
    /\ instanceStats = NoStats
    /\ caught = NoMsg
    /\ healthStatus = NoResult
    /\ rejection = NoMsg
    /\ response = NoResponse
    /\ metrics = NoMetrics
    /\ cacheOps = <<>>
    /\ previous = NoResult
    /\ cpc = "idle"
    /\ cname = Absent
    /\ cresult = "none"
    /\ rpc = "idle"
    /\ rop = "none"
    /\ rargs = <<>>
    /\ rnames = <<>>
    /\ rresult = NoOutcome
    /\ now = 0
    /\ cache = {}
    /\ probes = [i \in Probes |-> IdleProbe]
    /\ spc = "idle"
    /\ sfound = NoOutcome
    /\ sresult = NoOutcome

\* loadInstance has run: nothing is left to resolve
Hydrated == lpc = "loaded" /\ lqueue = {}

\* a fresh deployment: the persistent store is empty
Init == Boot /\ Hydrated /\ store = [n \in Names |-> Absent]

\* the store holds whatever earlier runs of this deployment ("own") and other
\* deployments sharing the database ("foreign") left in it
RegistryInit ==
    Boot /\ Hydrated /\ store \in [Names -> {Absent, "own", "foreign"}]

\* the process starts over such a store: loadInstance has yet to run
BootInit ==
    /\ Boot
    /\ lpc = "boot"
    /\ lqueue = {}
    /\ store \in [Names -> {Absent, "own", "foreign"}]

(***************************************************************************)
(* HealthService.getHealthStatus, one action per suspension point          *)
(***************************************************************************)
Callers == {"direct", "getHealth", "getReadiness"}
Awaiting == {"db", "set", "get", "delete"}

\* entry: startTime taken, checkDatabaseHealth issues $queryRaw and awaits it
getHealthStatus(c) ==
    /\ pc = "idle"
    /\ pc' = "db"
    /\ caller' = c
    /\ UNCHANGED <<waInstances, store, stuck, databaseHealth, redisHealth,
                   instanceStats, caught, healthStatus, rejection, response,
                   metrics, cacheOps, cvars, rvars,
                   lvars, svars, kvars, previous>>

\* the awaited dependency operation never settles
DependencyStalls ==
    /\ pc \in Awaiting
    /\ ~stuck
    /\ stuck' = TRUE
    /\ UNCHANGED <<waInstances, store, pc, caller, databaseHealth, redisHealth,
                   instanceStats, caught, healthStatus, rejection, response,
                   metrics, cacheOps, cvars, rvars,
                   lvars, svars, kvars, previous>>

\* $queryRaw settles; checkDatabaseHealth resolves
checkDatabaseHealth ==
    /\ pc = "db"
    /\ ~stuck
    /\ \E o \in {"ok"} \cup DbErrors : databaseHealth' = DatabaseHealthOf(o)
    /\ pc' = "redis"
    /\ UNCHANGED <<waInstances, store, caller, stuck, redisHealth, instanceStats,
                   caught, healthStatus, rejection, response, metrics,
                   cacheOps, cvars, rvars,
                   lvars, svars, kvars, previous>>

\* mutant: the round trip is started whatever the configuration says
FirstCacheOps_Always(cfg) == <<"set">>

\* the cache operations checkRedisHealth has issued when it first suspends or
\* returns: cache.set when the cache is enabled, none otherwise
FirstCacheOps(cfg) == IF cfg = "enabled" THEN <<"set">> ELSE <<>>

\* checkRedisHealth up to its first await: the configuration read throws, or
\* the cache is disabled, or cache.set is issued
checkRedisHealth ==
    /\ pc = "redis"
    /\ \E cfg \in {"enabled", "disabled"} \cup ConfigErrors :
         /\ CASE cfg = "disabled" ->
                  /\ redisHealth' = RedisDisabled
                  /\ pc' = "stats"
                  /\ UNCHANGED caught
             [] cfg = "enabled" ->
                  /\ pc' = "set"
                  /\ UNCHANGED <<redisHealth, caught>>
             [] OTHER ->
                  /\ caught' = cfg
                  /\ pc' = "catch"
                  /\ UNCHANGED redisHealth
         /\ cacheOps' = FirstCacheOps(cfg)
    /\ databaseHealth' = IF pc' = "catch" THEN NoProbe ELSE databaseHealth
    /\ UNCHANGED <<waInstances, store, caller, stuck, instanceStats,
                   healthStatus, rejection, response, metrics, cvars, rvars,
                   lvars, svars, kvars, previous>>

\* one of cache.set / cache.get / cache.delete settles
CacheStep(at, next) ==
    /\ pc = at
    /\ ~stuck
    /\ \E o \in {"ok"} \cup CacheErrors :
         IF o = "ok"
         THEN /\ pc' = next
              /\ redisHealth' = IF next = "stats" THEN RedisConnected ELSE redisHealth
              /\ cacheOps' = IF next = "stats" THEN cacheOps
                             ELSE Append(cacheOps, next)
         ELSE /\ pc' = "stats"
              /\ redisHealth' = RedisError(o)
              /\ cacheOps' = cacheOps
    /\ UNCHANGED <<waInstances, store, caller, stuck, databaseHealth,
                   instanceStats, caught, healthStatus, rejection, response,
                   metrics, cvars, rvars, lvars, svars, kvars, previous>>

cacheSet == CacheStep("set", "get")
cacheGet == CacheStep("get", "delete")
cacheDelete == CacheStep("delete", "stats")

\* mutant: the count drops the handles it finds without connection status
getInstanceStatistics_Prunes ==
    /\ pc = "stats"
    /\ instanceStats' = CountInstances(waInstances)
    /\ waInstances' = [n \in Names |-> IF waInstances[n] = NoState THEN Absent
                                        ELSE waInstances[n]]
    /\ pc' = "build"
    /\ UNCHANGED <<store, caller, stuck, databaseHealth, redisHealth,
                   caught, healthStatus, rejection, response, metrics,
                   cacheOps, cvars, rvars, lvars, svars, kvars, previous>>

\* getInstanceStatistics: synchronous, one reading of the instance table
getInstanceStatistics ==
    /\ pc = "stats"
    /\ instanceStats' = CountInstances(waInstances)
    /\ pc' = "build"
    /\ UNCHANGED <<waInstances, store, caller, stuck, databaseHealth, redisHealth,
                   caught, healthStatus, rejection, response, metrics,
                   cacheOps, cvars, rvars,
                   lvars, svars, kvars, previous>>

\* getMemoryUsage, getSystemInfo, determineOverallStatus, return; or
\* process.memoryUsage() throws and the catch branch is entered
buildHealthStatus ==
    /\ pc = "build"
    /\ \E m \in {"ok"} \cup ProcessErrors :
         IF m = "ok"
         THEN /\ healthStatus' = BuildHealthStatus(databaseHealth, redisHealth,
                                                   instanceStats)
              /\ pc' = "returned"
              /\ UNCHANGED caught
         ELSE /\ caught' = m
              /\ pc' = "catch"
              /\ UNCHANGED healthStatus
    /\ databaseHealth' = NoProbe
    /\ redisHealth' = NoProbe
    /\ instanceStats' = NoStats
    /\ cacheOps' = <<>>
    /\ UNCHANGED <<waInstances, store, caller, stuck, rejection, response,
                   metrics, cvars, rvars, lvars, svars, kvars, previous>>

\* the catch branch: builds the fallback status, calling getMemoryUsage again
catchBranch ==
    /\ pc = "catch"
    /\ \E m \in {"ok"} \cup ProcessErrors :
         IF m = "ok"
         THEN /\ healthStatus' = FallbackStatus(caught)
              /\ pc' = "returned"
              /\ UNCHANGED rejection
         ELSE /\ rejection' = m
              /\ pc' = "rejected"
              /\ UNCHANGED healthStatus
    /\ UNCHANGED <<waInstances, store, caller, stuck, databaseHealth, redisHealth,
                   instanceStats, caught, response, metrics,
                   cacheOps, cvars, rvars,
                   lvars, svars, kvars, previous>>

(***************************************************************************)
(* HealthController: the continuation after await getHealthStatus()        *)
(***************************************************************************)
getHealth ==
    /\ caller = "getHealth"
    /\ pc \in {"returned", "rejected"}
    /\ response' = IF pc = "returned"
                   THEN [code |-> getHttpStatusFromHealth(healthStatus.status),
                         body |-> healthStatus]
                   ELSE [code |-> 503, body |-> ErrorResponse]
    /\ pc' = IF pc = "returned" THEN "responded" ELSE "respondedFailure"
    /\ UNCHANGED <<waInstances, store, caller, stuck, databaseHealth, redisHealth,
                   instanceStats, caught, healthStatus, rejection, metrics,
                   cacheOps, cvars, rvars,
                   lvars, svars, kvars, previous>>

getReadiness ==
    /\ caller = "getReadiness"
    /\ pc \in {"returned", "rejected"}
    /\ response' = IF pc = "returned"
                   THEN ReadinessResponse(healthStatus)
                   ELSE ReadinessFailure(rejection)
    /\ pc' = IF pc = "returned" THEN "responded" ELSE "respondedFailure"
    /\ UNCHANGED <<waInstances, store, caller, stuck, databaseHealth, redisHealth,
                   instanceStats, caught, healthStatus, rejection, metrics,
                   cacheOps, cvars, rvars,
                   lvars, svars, kvars, previous>>

\* the invocation is over: its locals die, the next request may come
Finish ==
    /\ \/ pc \in {"responded", "respondedFailure"}
       \/ caller = "direct" /\ pc \in {"returned", "rejected"}
    /\ pc' = "idle"
    /\ caller' = "none"
    /\ databaseHealth' = NoProbe
    /\ redisHealth' = NoProbe
    /\ instanceStats' = NoStats
    /\ caught' = NoMsg
    /\ healthStatus' = NoResult
    /\ rejection' = NoMsg
    /\ response' = NoResponse
    /\ metrics' = NoMetrics
    /\ cacheOps' = <<>>
    /\ UNCHANGED <<waInstances, store, stuck, cvars, rvars, lvars, svars, kvars, previous>>

\* a client that polls getHealthStatus has its answer: it keeps the status it
\* was handed, the invocation is over and its locals die
pollDone ==
    /\ caller = "direct"
    /\ pc \in {"returned", "rejected"}
    /\ previous' = IF pc = "returned" THEN healthStatus ELSE previous
    /\ pc' = "idle"
    /\ caller' = "none"
    /\ databaseHealth' = NoProbe
    /\ redisHealth' = NoProbe
    /\ instanceStats' = NoStats
    /\ caught' = NoMsg
    /\ healthStatus' = NoResult
    /\ rejection' = NoMsg
    /\ cacheOps' = <<>>
    /\ UNCHANGED <<waInstances, store, stuck, response, metrics, cvars, rvars,
                   lvars, svars, kvars>>

HealthStep ==
    \/ checkDatabaseHealth
    \/ checkRedisHealth
    \/ cacheSet
    \/ cacheGet
    \/ cacheDelete
    \/ getInstanceStatistics
    \/ buildHealthStatus
    \/ catchBranch

(***************************************************************************)
(* WAMonitoringService and the create / delete handlers that write it      *)
(***************************************************************************)
\* the persisted Instance record of a name
IdOf(n) == "id-" \o n
NumberOf(n) == "55" \o n
Record(n) == [id |-> IdOf(n), name |-> n, number |-> NumberOf(n)]
GhostKey == "ghost"

\* instanceNames.filter(name => !waInstances[name])
Missing(names, table) == SelectSeq(names, LAMBDA n : table[n] = Absent)

RECURSIVE Join(_, _)
Join(seq, sep) ==
    IF seq = <<>> THEN ""
    ELSE IF Len(seq) = 1 THEN seq[1]
    ELSE seq[1] \o sep \o Join(Tail(seq), sep)

\* mutant: the singular phrasing whatever the number of missing names
NotFoundMessage_AlwaysSingular(missing) ==
    "Instance" \o " \"" \o Join(missing, ", ") \o "\" not found"

NotFoundMessage(missing) ==
    "Instance" \o (IF Len(missing) > 1 THEN "s" ELSE "") \o " \""
        \o Join(missing, ", ") \o "\" not found"

NotFound(missing) == [kind |-> "NotFound", message |-> NotFoundMessage(missing)]

\* instance.findMany({where: {name: {in: names}, clientName}}), or
\* {where: {clientName}} without names
FindMany(st, names) ==
    {Record(n) : n \in {m \in Names :
        /\ st[m] = "own"
        /\ names = <<>> \/ \E i \in 1..Len(names) : names[i] = m}}

\* instance.findFirst({where: {id}}) or ({where: {number}}): the name of the
\* record, Absent for null
FindFirst(st, kind, key) ==
    LET hits == {n \in Names :
                    /\ st[n] # Absent
                    /\ key = (IF kind = "id" THEN IdOf(n) ELSE NumberOf(n))}
    IN  IF hits = {} THEN Absent ELSE CHOOSE n \in hits : TRUE

\* mutant: the record without handle is reported under the key it was asked by
UnloadedNotFound_ByKey(found, key) == NotFound(<<key>>)

\* instanceInfoById: a record was found but its handle is not loaded
UnloadedNotFound(found, key) == NotFound(<<found>>)

RECURSIVE SeqsUpTo(_, _)
SeqsUpTo(S, k) ==
    IF k = 0 THEN {<<>>}
    ELSE LET shorter == SeqsUpTo(S, k - 1)
         IN  shorter \cup {Append(q, x) : q \in shorter, x \in S}

\* instanceInfo up to its await: the existence check, then findMany issued
InstanceInfoBody(names) ==
    /\ rnames' = names
    /\ IF Len(names) > 0 /\ Missing(names, waInstances) # <<>>
       THEN /\ rresult' = NotFound(Missing(names, waInstances))
            /\ rpc' = "done"
       ELSE /\ rresult' = NoOutcome
            /\ rpc' = "findMany"

instanceInfo ==
    /\ rpc = "idle"
    /\ \E names \in SeqsUpTo(Names, MaxLookup) :
         /\ rop' = "instanceInfo"
         /\ rargs' = names
         /\ InstanceInfoBody(names)
    /\ UNCHANGED <<waInstances, store, hvars, cvars, lvars, svars, kvars>>

\* findMany settles; instanceInfo resolves or rejects
findMany ==
    /\ rpc = "findMany"
    /\ \E o \in {"ok", "Database error"} :
         rresult' = IF o = "ok"
                    THEN [kind |-> "records", records |-> FindMany(store, rnames)]
                    ELSE [kind |-> "PersistenceError", message |-> o]
    /\ rpc' = "done"
    /\ UNCHANGED <<waInstances, store, hvars, cvars, lvars, svars, kvars, rop, rargs,
                   rnames>>

\* instanceInfoById(instanceId, number): findFirst issued
instanceInfoById ==
    /\ rpc = "idle"
    /\ \E kind \in {"id", "number"}, n \in Names \cup {GhostKey} :
         rargs' = <<kind, IF kind = "id" THEN IdOf(n) ELSE NumberOf(n)>>
    /\ rop' = "instanceInfoById"
    /\ rpc' = "findFirst"
    /\ UNCHANGED <<waInstances, store, hvars, cvars, lvars, svars, kvars, rnames,
                   rresult>>

\* findFirst settles: no record, record without handle, or on to instanceInfo
findFirst ==
    /\ rpc = "findFirst"
    /\ \E o \in {"ok", "Database error"} :
         IF o # "ok"
         THEN /\ rresult' = [kind |-> "PersistenceError", message |-> o]
              /\ rpc' = "done"
              /\ UNCHANGED rnames
         ELSE LET found == FindFirst(store, rargs[1], rargs[2])
              IN  IF found = Absent
                  THEN /\ rresult' = NotFound(<<rargs[2]>>)
                       /\ rpc' = "done"
                       /\ UNCHANGED rnames
                  ELSE IF waInstances[found] = Absent
                  THEN /\ rresult' = UnloadedNotFound(found, rargs[2])
                       /\ rpc' = "done"
                       /\ rnames' = <<found>>
                  ELSE InstanceInfoBody(<<found>>)
    /\ UNCHANGED <<waInstances, store, hvars, cvars, lvars, svars, kvars, rop, rargs>>

\* the lookup's caller has its answer
lookupDone ==
    /\ rpc = "done"
    /\ rpc' = "idle"
    /\ rop' = "none"
    /\ rargs' = <<>>
    /\ rnames' = <<>>
    /\ rresult' = NoOutcome
    /\ UNCHANGED <<waInstances, store, hvars, cvars, lvars, svars, kvars>>

\* deleteInstance(name): the handle leaves the table, the record the store
DeleteFrom(f, n) == [f EXCEPT ![n] = Absent]
DeleteRecord(st, n) == IF st[n] = "own" THEN [st EXCEPT ![n] = Absent] ELSE st

\* mutant: deleting a name that has no handle is an error
DeleteOutcome_AbsentIsNotFound(table, n) ==
    IF table[n] = Absent THEN "NotFound" ELSE "deleted"

\* what deleteInstance answers for a name, loaded or not
DeleteOutcome(table, n) == "deleted"

deleteName(n) ==
    /\ waInstances' = DeleteFrom(waInstances, n)
    /\ store' = DeleteRecord(store, n)
    /\ cresult' = DeleteOutcome(waInstances, n)
    /\ UNCHANGED <<hvars, cpc, cname, rvars, lvars, svars, kvars>>

deleteInstance == \E n \in Names : deleteName(n)

\* createInstance up to await saveInstance: channelController.init builds the
\* handle, or throws and the handler rolls back with deleteInstance
createInstance ==
    /\ cpc = "idle"
    /\ \E n \in Names, init \in {"ok", "throws"} :
         IF init = "ok"
         THEN /\ cpc' = "save"
              /\ cname' = n
              /\ UNCHANGED <<waInstances, store, cresult>>
         ELSE /\ waInstances' = DeleteFrom(waInstances, n)
              /\ store' = DeleteRecord(store, n)
              /\ cresult' = "BadRequest"
              /\ UNCHANGED <<cpc, cname>>
    /\ UNCHANGED <<hvars, rvars, lvars, svars, kvars>>

\* mutant: the table is rebuilt around the new handle, losing what other
\* operations inserted meanwhile
InsertHandle_FromScratch(table, n, h) ==
    [m \in DOMAIN table |-> IF m = n THEN h ELSE Absent]

\* what the handler does with the handle once saveInstance has resolved
InsertHandle(table, n, h) == [table EXCEPT ![n] = h]

\* mutant: saveInstance rejects with the error of instance.create
SaveOutcome_Propagates(o) == IF o = "ok" THEN "resolved" ELSE "rejected"

\* how saveInstance settles once instance.create has settled with o: the
\* error is logged and swallowed, saveInstance resolves to undefined
SaveOutcome(o) == "resolved"

\* saveInstance: instance.create resolves, or rejects (always when the name is
\* taken); when saveInstance has resolved the handler inserts the handle
saveInstance ==
    /\ cpc = "save"
    /\ \E o \in {"ok", "Database error"}, h \in {"close", NoState} :
         /\ o = "ok" => store[cname] = Absent
         /\ store' = IF o = "ok" THEN [store EXCEPT ![cname] = "own"] ELSE store
         /\ IF SaveOutcome(o) = "resolved"
            THEN /\ waInstances' = InsertHandle(waInstances, cname, h)
                 /\ cresult' = "created"
            ELSE /\ waInstances' = waInstances
                 /\ cresult' = "PersistenceError"
    /\ cpc' = "idle"
    /\ cname' = Absent
    /\ UNCHANGED <<hvars, rvars, lvars, svars, kvars>>

\* the session behind a loaded handle changes its connection state
connectionUpdate ==
    /\ \E n \in Names, st \in ConnectionStates :
         /\ waInstances[n] # Absent
         /\ waInstances[n] # st
         /\ waInstances' = [waInstances EXCEPT ![n] = st]
    /\ UNCHANGED <<store, hvars, cvars, rvars, lvars, svars, kvars>>

(***************************************************************************)
(* HealthService.getMetrics and HealthController.getMetrics, getLiveness   *)
(***************************************************************************)
Digit == <<"0", "1", "2", "3", "4", "5", "6", "7", "8", "9">>

\* `${n}` of a non-negative integer
RECURSIVE NumStr(_)
NumStr(n) ==
    IF n < 10 THEN Digit[n + 1]
    ELSE NumStr(n \div 10) \o Digit[(n % 10) + 1]

\* responseTime || 0, as it is printed
OrZero(rt) == IF rt = Absent THEN NumStr(0) ELSE rt

\* mutant: a dependency that is switched off is exported as up
UpOrDown_DisabledIsUp(probe) ==
    IF probe.status \in {"connected", "disabled"} THEN 1 ELSE 0

\* status === 'connected' ? 1 : 0
UpOrDown(probe) == IF probe.status = "connected" THEN 1 ELSE 0

\* the MetricsData getMetrics takes from a HealthStatus
MetricsDataOf(hs) ==
    [system_uptime_seconds |-> hs.uptime,
     system_memory_usage_bytes |-> NumStr(hs.memory.used),
     system_memory_total_bytes |-> NumStr(hs.memory.total),
     app_instances_total |-> NumStr(hs.instances.total),
     app_instances_active |-> NumStr(hs.instances.active),
     app_instances_inactive |-> NumStr(hs.instances.inactive),
     database_connection_status |-> NumStr(UpOrDown(hs.database)),
     database_response_time_ms |-> OrZero(hs.database.responseTime),
     redis_connection_status |-> NumStr(UpOrDown(hs.redis)),
     redis_response_time_ms |-> OrZero(hs.redis.responseTime)]

\* the four lines pushed for one series, each as its blank-separated parts
Series(name, help, type, value) ==
    << <<"# HELP", name, help>>, <<"# TYPE", name, type>>, <<name, value>>, <<"">> >>

\* the array lines of formatPrometheusMetrics
formatPrometheusLines(m) ==
    Series("evolution_api_uptime_seconds",
           "Total uptime of the application in seconds", "counter",
           m.system_uptime_seconds)
    \o Series("evolution_api_memory_usage_bytes",
              "Current memory usage in bytes", "gauge",
              m.system_memory_usage_bytes)
    \o Series("evolution_api_instances_total",
              "Total number of WhatsApp instances", "gauge",
              m.app_instances_total)
    \o Series("evolution_api_instances_active",
              "Number of active WhatsApp instances", "gauge",
              m.app_instances_active)
    \o Series("evolution_api_database_up",
              "Database connection status (1 = up, 0 = down)", "gauge",
              m.database_connection_status)
    \o Series("evolution_api_database_response_time_ms",
              "Database response time in milliseconds", "gauge",
              m.database_response_time_ms)
    \o Series("evolution_api_redis_up",
              "Redis connection status (1 = up, 0 = down)", "gauge",
              m.redis_connection_status)

\* lines.join('\n')
TextOf(lines) == Join([i \in 1..Len(lines) |-> Join(lines[i], " ")], "\n")

formatPrometheusMetrics(m) == TextOf(formatPrometheusLines(m))

\* the error the renderer raises when it fails
RenderErrors == {"Formatting error"}

\* HealthService.getMetrics after await getHealthStatus(): the text is
\* rendered, or the renderer throws, or getHealthStatus had rejected; the
\* catch logs and rethrows the error it caught
renderMetrics ==
    /\ caller = "getMetrics"
    /\ pc \in {"returned", "rejected"}
    /\ IF pc = "returned"
       THEN \E r \in {"ok"} \cup RenderErrors :
              IF r = "ok"
              THEN /\ metrics' = formatPrometheusLines(MetricsDataOf(healthStatus))
                   /\ pc' = "rendered"
                   /\ UNCHANGED rejection
              ELSE /\ rejection' = r
                   /\ pc' = "metricsRejected"
                   /\ UNCHANGED metrics
       ELSE /\ pc' = "metricsRejected"
            /\ UNCHANGED <<rejection, metrics>>
    /\ UNCHANGED <<waInstances, store, caller, stuck, databaseHealth, redisHealth,
                   instanceStats, caught, healthStatus, response,
                   cacheOps, cvars, rvars, lvars, svars, kvars, previous>>

MetricsContentType == "text/plain; version=0.0.4; charset=utf-8"

\* mutant: the failure is answered without the message of the error
MetricsFailure_MessageDropped(msg) ==
    [code |-> 500,
     body |-> [error |-> "Failed to generate metrics",
               message |-> "Failed to generate metrics"]]

\* the response of the catch branch of the controller's getMetrics
MetricsFailure(msg) ==
    [code |-> 500,
     body |-> [error |-> "Failed to generate metrics", message |-> msg]]

\* HealthController.getMetrics after await healthService.getMetrics()
getMetrics ==
    /\ caller = "getMetrics"
    /\ pc \in {"rendered", "metricsRejected"}
    /\ response' = IF pc = "rendered"
                   THEN [code |-> 200, contentType |-> MetricsContentType,
                         body |-> TextOf(metrics)]
                   ELSE MetricsFailure(rejection)
    /\ pc' = IF pc = "rendered" THEN "responded" ELSE "respondedFailure"
    /\ UNCHANGED <<waInstances, store, caller, stuck, databaseHealth, redisHealth,
                   instanceStats, caught, healthStatus, rejection, metrics,
                   cacheOps, cvars, rvars,
                   lvars, svars, kvars, previous>>

\* mutant: the process is reported alive only while instances are loaded
LivenessResponse_NeedsInstances(o, table) ==
    IF o = "ok" /\ \E n \in DOMAIN table : table[n] # Absent
    THEN [code |-> 200,
          body |-> [status |-> "alive", uptime |-> "floorSinceStart",
                    memory |-> [heapUsed |-> MemUsage.heapUsed,
                                heapTotal |-> MemUsage.heapTotal],
                    error |-> Absent]]
    ELSE [code |-> 503,
          body |-> [status |-> "not alive", uptime |-> Absent,
                    memory |-> Absent, error |-> o]]

\* the response of getLiveness when process introspection settles with o; the
\* instance table is at hand but not read
LivenessResponse(o, table) ==
    IF o = "ok"
    THEN [code |-> 200,
          body |-> [status |-> "alive", uptime |-> "floorSinceStart",
                    memory |-> [heapUsed |-> MemUsage.heapUsed,
                                heapTotal |-> MemUsage.heapTotal],
                    error |-> Absent]]
    ELSE [code |-> 503,
          body |-> [status |-> "not alive", uptime |-> Absent,
                    memory |-> Absent, error |-> o]]

\* HealthController.getLiveness: synchronous, no call to HealthService
getLiveness ==
    /\ pc = "idle"
    /\ \E o \in {"ok"} \cup ProcessErrors :
         /\ response' = LivenessResponse(o, waInstances)
         /\ pc' = IF o = "ok" THEN "responded" ELSE "respondedFailure"
    /\ caller' = "getLiveness"
    /\ UNCHANGED <<waInstances, store, stuck, databaseHealth, redisHealth,
                   instanceStats, caught, healthStatus, rejection, metrics,
                   cacheOps, cvars, rvars,
                   lvars, svars, kvars, previous>>

(***************************************************************************)
(* HealthService.checkRedisHealth against the cache, several invocations   *)
(* overlapping in time, under a clock                                      *)
(***************************************************************************)
\* the time-to-live handed to cache.set, in seconds
TtlSeconds == 1

\* the last instant of the clock
Horizon == MaxSeconds * 1000 + MaxMs

\* 'health_check_' + Date.now()
TestKey(t) == "health_check_" \o NumStr(t)

\* mutant: the key is written without expiry
ExpiresAt_Never(t) == t + 1000 * 1000 * 1000

\* when a key set at t with the probe's time-to-live expires
ExpiresAt(t) == t + TtlSeconds * 1000

\* the cache as the probe uses it
Held(c, k) == \E e \in c : e.key = k
CacheSet(c, k, v, t) ==
    {e \in c : e.key # k} \cup {[key |-> k, value |-> v, expiresAt |-> ExpiresAt(t)]}
CacheGet(c, k) == IF Held(c, k) THEN (CHOOSE e \in c : e.key = k).value ELSE "null"
CacheDelete(c, k) == {e \in c : e.key # k}
Expire(c, t) == {e \in c : e.expiresAt > t}

\* mutant: the probe compares what it read back with what it wrote
ProbeVerdict_ReadBackChecked(got) ==
    IF got = "test" THEN RedisConnected ELSE RedisError("Read-back mismatch")

\* what checkRedisHealth returns once set, get and delete have all resolved;
\* the value cache.get resolved to is dropped
ProbeVerdict(got) == RedisConnected

\* checkRedisHealth with the cache enabled, up to await cache.set: the key is
\* named after the clock
redisProbe(i) ==
    /\ probes[i].pc = "idle"
    /\ probes' = [probes EXCEPT ![i] =
                     [pc |-> "set", testKey |-> TestKey(now), got |-> "none",
                      result |-> NoProbe]]
    /\ UNCHANGED <<waInstances, store, hvars, cvars, rvars, lvars, svars,
                   now, cache>>

\* cache.set(testKey, 'test', 1) settles
redisSet(i) ==
    /\ probes[i].pc = "set"
    /\ \E o \in {"ok"} \cup CacheErrors :
         IF o = "ok"
         THEN /\ now + TtlSeconds * 1000 <= Horizon
              /\ cache' = CacheSet(cache, probes[i].testKey, "test", now)
              /\ probes' = [probes EXCEPT ![i].pc = "get"]
         ELSE /\ cache' = cache
              /\ probes' = [probes EXCEPT ![i].pc = "done",
                                          ![i].result = RedisError(o)]
    /\ UNCHANGED <<waInstances, store, hvars, cvars, rvars, lvars, svars, now>>

\* cache.get(testKey) settles
redisGet(i) ==
    /\ probes[i].pc = "get"
    /\ \E o \in {"ok"} \cup CacheErrors :
         IF o = "ok"
         THEN probes' = [probes EXCEPT ![i].pc = "delete",
                                      ![i].got = CacheGet(cache, probes[i].testKey)]
         ELSE probes' = [probes EXCEPT ![i].pc = "done",
                                      ![i].result = RedisError(o)]
    /\ UNCHANGED <<waInstances, store, hvars, cvars, rvars, lvars, svars,
                   now, cache>>

\* cache.delete(testKey) settles; checkRedisHealth returns
redisDelete(i) ==
    /\ probes[i].pc = "delete"
    /\ \E o \in {"ok"} \cup CacheErrors :
         IF o = "ok"
         THEN /\ cache' = CacheDelete(cache, probes[i].testKey)
              /\ probes' = [probes EXCEPT ![i].pc = "done",
                                          ![i].result = ProbeVerdict(probes[i].got)]
         ELSE /\ cache' = cache
              /\ probes' = [probes EXCEPT ![i].pc = "done",
                                          ![i].result = RedisError(o)]
    /\ UNCHANGED <<waInstances, store, hvars, cvars, rvars, lvars, svars, now>>

\* the invocation is over; the next health check may come
redisDone(i) ==
    /\ probes[i].pc = "done"
    /\ probes' = [probes EXCEPT ![i] = IdleProbe]
    /\ UNCHANGED <<waInstances, store, hvars, cvars, rvars, lvars, svars,
                   now, cache>>

\* time passes, by a millisecond or by a second; the cache drops the keys
\* whose time-to-live is over
Tick ==
    /\ \E d \in {1, 1000} :
         /\ d = 1 => (now % 1000) < MaxMs
         /\ d = 1000 => (now \div 1000) < MaxSeconds
         /\ now' = now + d
    /\ cache' = Expire(cache, now')
    /\ UNCHANGED <<waInstances, store, hvars, cvars, rvars, lvars, svars,
                   probes>>

(***************************************************************************)
(* WAMonitoringService.loadInstance: the hydration of the table at boot     *)
(***************************************************************************)
\* the hydration policy read from the configuration: every record of the
\* store, or the instance keys of the cache, or neither
HydrationModes == {"store", "cache", "none"}

\* mutant: loadInstance rejects with the error of its source
LoadFailure_Propagates(msg) == "rejected"

\* where loadInstance ends when the query of its source rejects with msg: the
\* error is logged, loadInstance resolves with nothing loaded
LoadFailure(msg) == "loaded"

\* mutant: an entry that fails to resolve ends the hydration
AfterFailedEntry_Abort(queue, n) == {}

\* the entries left once entry n failed to resolve: n alone is skipped
AfterFailedEntry(queue, n) == queue \ {n}

\* loadInstance up to its first await
loadInstance ==
    /\ lpc = "boot"
    /\ \E mode \in HydrationModes :
         lpc' = CASE mode = "store" -> "findMany"
                  [] mode = "cache" -> "keys"
                  [] OTHER -> "loaded"
    /\ UNCHANGED <<waInstances, store, lqueue, hvars, cvars, rvars, kvars, svars>>

\* instance.findMany({where: {clientName}}) settles
loadFromStore ==
    /\ lpc = "findMany"
    /\ \E o \in {"ok", "Database error"} :
         IF o = "ok"
         THEN /\ lqueue' = {n \in Names : store[n] = "own"}
              /\ lpc' = "records"
         ELSE /\ lqueue' = {}
              /\ lpc' = LoadFailure(o)
    /\ UNCHANGED <<waInstances, store, hvars, cvars, rvars, kvars, svars>>

\* cache.keys() settles with the keys instance:{id}:{name} the cache retains
loadFromCache ==
    /\ lpc = "keys"
    /\ \E o \in {"ok"} \cup CacheErrors :
         IF o = "ok"
         THEN /\ lqueue' \in SUBSET Names
              /\ lpc' = "cacheKeys"
         ELSE /\ lqueue' = {}
              /\ lpc' = LoadFailure(o)
    /\ UNCHANGED <<waInstances, store, hvars, cvars, rvars, kvars, svars>>

\* one entry is resolved (a cache key through findUnique by id) and its handle
\* built and inserted, not yet connected; or it fails to resolve
loadEntry ==
    /\ lpc \in {"records", "cacheKeys"}
    /\ \E n \in lqueue, o \in {"ok", "fails"} :
         LET resolves == o = "ok" /\ (lpc = "cacheKeys" => store[n] # Absent)
         IN  /\ waInstances' = IF resolves
                               THEN InsertHandle(waInstances, n, "close")
                               ELSE waInstances
             /\ lqueue' = IF resolves THEN lqueue \ {n}
                          ELSE AfterFailedEntry(lqueue, n)
    /\ UNCHANGED <<store, lpc, hvars, cvars, rvars, kvars, svars>>

\* every entry has been dealt with: loadInstance resolves
loadDone ==
    /\ lpc \in {"records", "cacheKeys"}
    /\ lqueue = {}
    /\ lpc' = "loaded"
    /\ UNCHANGED <<waInstances, store, lqueue, hvars, cvars, rvars, kvars, svars>>

(***************************************************************************)
(* SettingsService.find                                                    *)
(***************************************************************************)
SettingsFields == {"rejectCall", "msgCall"}
FieldValues == {"true", "Call rejected", "null", "undefined"}

\* the values findSettings may resolve to: null, undefined, or a settings
\* record with any of the fields, the empty record among them
Null == [type |-> "null"]
Undefined == [type |-> "undefined"]
Object(f) == [type |-> "object", fields |-> f]
SettingsRecords ==
    {Object(f) : f \in UNION {[S -> FieldValues] : S \in SUBSET SettingsFields}}

SettingsErrors == {"Database connection failed"}
Resolved(v) == [kind |-> "resolved", value |-> v]
Rejected(msg) == [kind |-> "rejected", error |-> msg]

\* how the handle's findSettings may settle
FindSettingsOutcomes ==
    {Resolved(v) : v \in {Null, Undefined} \cup SettingsRecords}
        \cup {Rejected(e) : e \in SettingsErrors}

\* Object.keys(result).length
KeyCount(v) == Cardinality(DOMAIN v.fields)

\* mutant: only a failed lookup and a missing record give null; an empty
\* record is handed on
FindResult_EmptyKept(o) ==
    IF o.kind = "resolved" /\ o.value.type = "object"
    THEN Resolved(o.value)
    ELSE Resolved(Null)

\* what find settles with once findSettings has settled with o
FindResult(o) ==
    IF o.kind = "resolved" /\ o.value.type = "object" /\ KeyCount(o.value) > 0
    THEN Resolved(o.value)
    ELSE Resolved(Null)

\* find(instance): the handle is looked up in the instance table and its
\* findSettings is awaited; without a handle the call rejects
find(n) ==
    /\ spc = "idle"
    /\ IF waInstances[n] = Absent
       THEN /\ spc' = "done"
            /\ sresult' = Rejected("TypeError")
       ELSE /\ spc' = "findSettings"
            /\ sresult' = NoOutcome
    /\ sfound' = NoOutcome
    /\ UNCHANGED <<waInstances, store, hvars, cvars, rvars, lvars, kvars>>

\* findSettings settles; find settles
findSettings ==
    /\ spc = "findSettings"
    /\ \E o \in FindSettingsOutcomes :
         /\ sfound' = o
         /\ sresult' = FindResult(o)
    /\ spc' = "done"
    /\ UNCHANGED <<waInstances, store, hvars, cvars, rvars, lvars, kvars>>

\* the caller has its answer
findDone ==
    /\ spc = "done"
    /\ spc' = "idle"
    /\ sfound' = NoOutcome
    /\ sresult' = NoOutcome
    /\ UNCHANGED <<waInstances, store, hvars, cvars, rvars, lvars, kvars>>

(***************************************************************************)
(* Specifications                                                          *)
(***************************************************************************)
\* the health aggregator and its surface, beside a changing instance table
Next ==
    \/ \E c \in Callers : getHealthStatus(c)
    \/ DependencyStalls
    \/ checkDatabaseHealth
    \/ checkRedisHealth
    \/ cacheSet
    \/ cacheGet
    \/ cacheDelete
    \/ getInstanceStatistics
    \/ buildHealthStatus
    \/ catchBranch
    \/ getHealth
    \/ getReadiness
    \/ Finish
    \/ createInstance
    \/ saveInstance
    \/ deleteInstance
    \/ connectionUpdate

Spec == Init /\ [][Next]_vars

\* the registry: lookups beside creations and deletions
RegistryNext ==
    \/ instanceInfo
    \/ findMany
    \/ instanceInfoById
    \/ findFirst
    \/ lookupDone
    \/ createInstance
    \/ saveInstance
    \/ deleteInstance

RegistrySpec == RegistryInit /\ [][RegistryNext]_vars

\* the boot: hydration beside the first creations and deletions
BootNext ==
    \/ loadInstance
    \/ loadFromStore
    \/ loadFromCache
    \/ loadEntry
    \/ loadDone
    \/ createInstance
    \/ saveInstance
    \/ deleteInstance

BootSpec == BootInit /\ [][BootNext]_vars

\* the metrics and liveness endpoints, beside a changing instance table
MetricsNext ==
    \/ getHealthStatus("getMetrics")
    \/ checkDatabaseHealth
    \/ checkRedisHealth
    \/ cacheSet
    \/ cacheGet
    \/ cacheDelete
    \/ getInstanceStatistics
    \/ buildHealthStatus
    \/ catchBranch
    \/ renderMetrics
    \/ getMetrics
    \/ getLiveness
    \/ Finish
    \/ createInstance
    \/ saveInstance
    \/ deleteInstance
    \/ connectionUpdate

MetricsSpec == Init /\ [][MetricsNext]_vars

\* a client polling getHealthStatus, one call after the other, while the
\* dependencies fail and recover
PollNext ==
    \/ getHealthStatus("direct")
    \/ checkDatabaseHealth
    \/ checkRedisHealth
    \/ cacheSet
    \/ cacheGet
    \/ cacheDelete
    \/ getInstanceStatistics
    \/ buildHealthStatus
    \/ catchBranch
    \/ pollDone

PollSpec == Init /\ [][PollNext]_vars

\* the settings lookup, beside creations and deletions
SettingsNext ==
    \/ \E n \in Names : find(n)
    \/ findSettings
    \/ findDone
    \/ createInstance
    \/ saveInstance
    \/ deleteInstance

SettingsSpec == Init /\ [][SettingsNext]_vars

\* the cache probe of overlapping health checks
CacheNext ==
    \/ \E i \in Probes : redisProbe(i)
    \/ \E i \in Probes : redisSet(i)
    \/ \E i \in Probes : redisGet(i)
    \/ \E i \in Probes : redisDelete(i)
    \/ \E i \in Probes : redisDone(i)
    \/ Tick

CacheSpec == Init /\ [][CacheNext]_vars

\* the same, with a clock that does not stop
CacheLiveSpec == Init /\ [][CacheNext]_vars /\ WF_vars(Tick)

(***************************************************************************)
(* Claims about the health aggregator and its surface (under Spec)         *)
(***************************************************************************)
\* getHealthStatus has resolved to a HealthStatus
Returned == pc \in {"returned", "responded"} /\ healthStatus # NoResult

\* every exception that can reach the top-level catch of getHealthStatus
TopLevelErrors == ConfigErrors \cup ProcessErrors

\* C1: in every HealthStatus getHealthStatus returns, status is 'unhealthy'
\* iff database.status is not 'connected'; with the database connected it is
\* 'degraded' iff redis.status is 'error'; otherwise it is 'healthy'.  The
\* status is thereby fixed by the two probe statuses, whatever the instance
\* table holds.
C1_StatusPrecedence ==
    Returned =>
        /\ healthStatus.status \in {"healthy", "degraded", "unhealthy"}
        /\ healthStatus.status = "unhealthy"
               <=> healthStatus.database.status # "connected"
        /\ healthStatus.database.status = "connected" =>
               (healthStatus.status = "degraded"
                    <=> healthStatus.redis.status = "error")
        /\ healthStatus.database.status = "connected"
               /\ healthStatus.redis.status # "error" =>
               healthStatus.status = "healthy"

\* a healthy verdict with the cache disabled and instances loaded
C1_Witness ==
    /\ Returned
    /\ healthStatus.status = "healthy"
    /\ healthStatus.redis.status = "disabled"
    /\ healthStatus.instances.total > 0

\* C2: every call to getHealthStatus returns a HealthStatus and never
\* propagates an exception to its caller, whichever step fails.
C2_NeverRejects == pc # "rejected"

\* C3 as stated: the fallback HealthStatus carries one fixed message, the same
\* whatever exception was raised.
C3_FixedMessage ==
    Returned /\ caught # NoMsg =>
        /\ healthStatus.status = "unhealthy"
        /\ healthStatus.database.status = "error"
        /\ healthStatus.redis.status = "error"
        /\ \A e \in TopLevelErrors :
               /\ healthStatus.database.error = FallbackStatus(e).database.error
               /\ healthStatus.redis.error = FallbackStatus(e).redis.error

\* C3 amended: when the catch branch returns, the HealthStatus is fully
\* populated, 'unhealthy', with zero instance counts, and database and redis
\* both report 'error' with the message of the exception that was raised.
C3_FallbackCarriesRaisedMessage ==
    Returned /\ caught # NoMsg =>
        /\ DOMAIN healthStatus = HealthStatusFields
        /\ healthStatus.status = "unhealthy"
        /\ healthStatus.database.status = "error"
        /\ healthStatus.redis.status = "error"
        /\ healthStatus.database.error = caught
        /\ healthStatus.redis.error = caught
        /\ healthStatus.instances = [total |-> 0, active |-> 0, inactive |-> 0]
        /\ DOMAIN healthStatus.memory = {"used", "total", "percentage"}
        /\ DOMAIN healthStatus.system = {"nodeVersion", "platform", "arch"}

\* the configuration read threw and the fallback status was returned
C3_Witness ==
    /\ Returned
    /\ caught \in ConfigErrors
    /\ healthStatus.status = "unhealthy"

\* C4: a stuck dependency cannot make the aggregator hang: while an invocation
\* awaits a dependency operation, some step of the invocation (a completion
\* or a timeout) can still happen.
InFlight == pc \in {"db", "redis", "set", "get", "delete", "stats", "build", "catch"}

C4_StuckDependencyCannotHang == InFlight => ENABLED HealthStep

\* C5: in every HealthStatus returned, instances.active + instances.inactive
\* equals instances.total, also when creations, deletions and connection
\* changes interleave with the health check, and also for the fallback status.
C5_CountsAddUp ==
    /\ Returned =>
           healthStatus.instances.active + healthStatus.instances.inactive
               = healthStatus.instances.total
    /\ pc = "build" =>
           instanceStats.active + instanceStats.inactive = instanceStats.total

\* counts of a table that has changed since it was read
C5_Witness ==
    /\ Returned
    /\ caught = NoMsg
    /\ healthStatus.instances.total = 2
    /\ healthStatus.instances.inactive >= 1
    /\ CountInstances(waInstances).total < 2

\* C6: getHealth answers 200 when the HealthStatus it obtained is 'healthy' or
\* 'degraded' and 503 when it is 'unhealthy', and the body is that
\* HealthStatus unchanged.
C6_HealthHttpMapping ==
    pc = "responded" /\ caller = "getHealth" =>
        /\ response.body = healthStatus
        /\ healthStatus.status \in {"healthy", "degraded"} => response.code = 200
        /\ healthStatus.status = "unhealthy" => response.code = 503

\* a degraded status answered with 200
C6_Witness ==
    /\ pc = "responded"
    /\ caller = "getHealth"
    /\ healthStatus.status = "degraded"
    /\ response.code = 200

\* C7: getReadiness answers 200 'ready' iff the obtained HealthStatus has
\* database.status 'connected', whatever the cache and overall status;
\* otherwise 503 'not ready' with the fixed reason 'Database not connected',
\* which carries nothing of the database's raw error message.
C7_ReadinessFollowsDatabase ==
    pc = "responded" /\ caller = "getReadiness" =>
        /\ (response.code = 200 /\ response.body.status = "ready")
               <=> healthStatus.database.status = "connected"
        /\ healthStatus.database.status # "connected" =>
               /\ response.code = 503
               /\ response.body.status = "not ready"
               /\ response.body.reason = "Database not connected"
               /\ response.body.reason # healthStatus.database.error
               /\ response.body.error = Absent

\* ready although the cache probe failed and the status is degraded
C7_Witness ==
    /\ pc = "responded"
    /\ caller = "getReadiness"
    /\ healthStatus.status = "degraded"
    /\ response.code = 200
    /\ response.body.status = "ready"

(***************************************************************************)
(* Claims about the registry (under RegistrySpec)                          *)
(***************************************************************************)
\* the names of a list, comma-joined, built from the last name backwards
RECURSIVE CommaList(_)
CommaList(names) ==
    IF Len(names) = 1 THEN names[1]
    ELSE CommaList(SubSeq(names, 1, Len(names) - 1)) \o ", " \o names[Len(names)]

\* the message the claims quote for a list of missing names
QuotedNotFound(names) ==
    IF Len(names) = 1
    THEN "Instance \"" \o names[1] \o "\" not found"
    ELSE "Instances \"" \o CommaList(names) \o "\" not found"

\* the requested names, in order, that have no handle in the table
Unloaded(names) == SelectSeq(names, LAMBDA n : waInstances[n] = Absent)

\* C8: instanceInfo with a non-empty list of names fails with NotFound iff at
\* least one requested name has no handle in waInstances, whatever the store
\* holds; the message names exactly the missing names, singular for one and
\* comma-joined plural for several; with all names loaded it returns the
\* store's records of those names in the client namespace.
C8_LookupByNames ==
    [][/\ (rpc = "idle" /\ rop' = "instanceInfo" /\ rargs' # <<>>) =>
              /\ rresult'.kind = "NotFound" <=> Unloaded(rargs') # <<>>
              /\ rresult'.kind = "NotFound" =>
                     rresult'.message = QuotedNotFound(Unloaded(rargs'))
              /\ Unloaded(rargs') = <<>> => rpc' = "findMany"
       /\ (rop = "instanceInfo" /\ rpc = "findMany" /\ rpc' = "done") =>
              /\ rresult'.kind \in {"records", "PersistenceError"}
              /\ rresult'.kind = "records" =>
                     rresult'.records =
                         {Record(n) : n \in {m \in Names :
                             /\ store[m] = "own"
                             /\ rargs = <<>> \/ \E i \in 1..Len(rargs) : rargs[i] = m}}
      ]_vars

\* two distinct names asked for, both without handle, one of them persisted
C8_Witness ==
    /\ rpc = "done"
    /\ rop = "instanceInfo"
    /\ Len(rargs) = 2
    /\ rargs[1] # rargs[2]
    /\ store[rargs[1]] = "own"
    /\ rresult.kind = "NotFound"
    /\ rresult.message = QuotedNotFound(rargs)

\* the persisted records a key of instanceInfoById matches
Matches(kind, key) ==
    {n \in Names : /\ store[n] # Absent
                   /\ key = (IF kind = "id" THEN IdOf(n) ELSE NumberOf(n))}

\* C9: instanceInfoById fails with NotFound carrying the given id or number
\* when the store has no matching record, with NotFound carrying the record's
\* name when a record is found but no handle of that name is loaded, and goes
\* on to answer only when the record is both persisted and loaded.
C9_LookupById ==
    [][/\ (rpc = "findFirst" /\ rpc' # "findFirst"
              /\ rresult'.kind # "PersistenceError") =>
              LET hit == Matches(rargs[1], rargs[2])
              IN  /\ hit = {} => rresult' = [kind |-> "NotFound",
                         message |-> QuotedNotFound(<<rargs[2]>>)]
                  /\ \A n \in hit : waInstances[n] = Absent =>
                         rresult' = [kind |-> "NotFound",
                                     message |-> QuotedNotFound(<<n>>)]
                  /\ rpc' = "findMany" <=>
                         \E n \in hit : waInstances[n] # Absent
       /\ (rop = "instanceInfoById" /\ rresult'.kind = "records"
              /\ rresult.kind # "records") => rpc = "findMany"
      ]_vars

\* asked by id, the record is persisted, its handle is not loaded
C9_Witness ==
    /\ rpc = "done"
    /\ rop = "instanceInfoById"
    /\ rargs = <<"id", IdOf("a")>>
    /\ store["a"] # Absent
    /\ waInstances["a"] = Absent
    /\ rresult = [kind |-> "NotFound", message |-> "Instance \"a\" not found"]

\* C10: when the store rejects the write during create, the failure is
\* surfaced to the caller as a PersistenceError and the handle is not
\* inserted: the instance table is the same after the failed create.
C10_FailedCreateLeavesNoHandle ==
    [][(cpc = "save" /\ cpc' = "idle" /\ store' = store) =>
           /\ cresult' = "PersistenceError"
           /\ waInstances' = waInstances
      ]_vars

\* C11: saveInstance resolves without throwing when the store's insert
\* rejects: the database error is not propagated to the caller, which goes on
\* as after a successful save.
C11_SaveSwallowsStoreError ==
    [][(cpc = "save" /\ cpc' = "idle" /\ store' = store) =>
           /\ cresult' # "PersistenceError"
           /\ cresult' = "created"
      ]_vars

\* a create whose insert was rejected has completed: the handle is loaded and
\* the store holds no record of this deployment under its name
C11_Witness ==
    /\ cpc = "idle"
    /\ cresult = "created"
    /\ \E n \in Names : waInstances[n] # Absent /\ store[n] # "own"

LookupOne(table, st, n) ==
    IF Missing(<<n>>, table) # <<>>
    THEN NotFound(Missing(<<n>>, table))
    ELSE [kind |-> "records", records |-> FindMany(st, <<n>>)]

\* C13: round trip on the registry: a create that has succeeded for its
\* caller, followed immediately by instanceInfo([name]), returns exactly one
\* record, the one matching the created data; a delete of a name followed
\* immediately by instanceInfo([name]) fails with NotFound naming the name.
C13_RoundTrip ==
    [][/\ (cpc = "save" /\ cpc' = "idle" /\ cresult' = "created") =>
              LookupOne(waInstances', store', cname)
                  = [kind |-> "records", records |-> {Record(cname)}]
       /\ \A n \in Names : deleteName(n) =>
              LookupOne(waInstances', store', n)
                  = [kind |-> "NotFound", message |-> QuotedNotFound(<<n>>)]
      ]_vars

SeriesAt(lines, i, name, type) ==
    /\ i + 2 <= Len(lines)
    /\ Len(lines[i]) = 3
    /\ lines[i][1] = "# HELP"
    /\ lines[i][2] = name
    /\ lines[i + 1] = <<"# TYPE", name, type>>
    /\ Len(lines[i + 2]) = 2
    /\ lines[i + 2][1] = name

HasSeries(lines, name, type) ==
    \E i \in 1..Len(lines) : SeriesAt(lines, i, name, type)

\* the series the renderer names, apart from a cache response time
NamedSeries ==
    {<<"evolution_api_uptime_seconds", "counter">>,
     <<"evolution_api_memory_usage_bytes", "gauge">>,
     <<"evolution_api_instances_total", "gauge">>,
     <<"evolution_api_instances_active", "gauge">>,
     <<"evolution_api_database_up", "gauge">>,
     <<"evolution_api_database_response_time_ms", "gauge">>,
     <<"evolution_api_redis_up", "gauge">>}

\* C16: the text getMetrics returns has, each with its HELP line, its TYPE
\* line and one sample: process uptime (counter), memory usage, total
\* instances, active instances, database up, database response time, cache
\* up, and cache response time (gauges); the last under whatever name, as a
\* further gauge whose sample is the cache probe's response time.
C16_AllSeriesRendered ==
    (caller = "getMetrics" /\ pc = "rendered") =>
        /\ \A sr \in NamedSeries : HasSeries(metrics, sr[1], sr[2])
        /\ \E i \in 1..Len(metrics) :
               /\ Len(metrics[i]) = 3
               /\ SeriesAt(metrics, i, metrics[i][2], "gauge")
               /\ metrics[i][2] \notin {sr[1] : sr \in NamedSeries}
               /\ metrics[i + 2][2] = OrZero(healthStatus.redis.responseTime)

\* C17: a rendering failure is never swallowed: getMetrics rejects with the
\* error the renderer raised and returns no text, and the endpoint answers
\* 500 with that error's message; when rendering succeeds the endpoint
\* answers 200 with the rendered text and the Prometheus content type.
C17_RenderFailurePropagates ==
    caller = "getMetrics" =>
        /\ pc = "metricsRejected" =>
               /\ metrics = NoMetrics
               /\ rejection \in RenderErrors \cup ProcessErrors
               /\ healthStatus # NoResult => rejection \in RenderErrors
        /\ pc = "respondedFailure" =>
               /\ metrics = NoMetrics
               /\ response.code = 500
               /\ response.body.message = rejection
               /\ healthStatus # NoResult => response.body.message \in RenderErrors
        /\ pc = "responded" =>
               /\ metrics # NoMetrics
               /\ response.code = 200
               /\ response.contentType = "text/plain; version=0.0.4; charset=utf-8"
               /\ response.body = TextOf(metrics)

\* the health status was obtained, the renderer threw, the endpoint said so
C17_Witness ==
    /\ caller = "getMetrics"
    /\ pc = "respondedFailure"
    /\ healthStatus # NoResult
    /\ response.code = 500
    /\ response.body.message = "Formatting error"

\* C18: getLiveness is independent of dependency health: it runs no probe
\* and never calls the aggregator, and its answer is fixed by process
\* introspection alone, the same whatever the instance table holds: 200
\* 'alive' when introspection succeeds, 503 'not alive' with the error
\* otherwise.
C18_LivenessIndependent ==
    caller = "getLiveness" =>
        /\ pc \in {"responded", "respondedFailure"}
        /\ databaseHealth = NoProbe
        /\ redisHealth = NoProbe
        /\ instanceStats = NoStats
        /\ healthStatus = NoResult
        /\ pc = "responded" =>
               /\ response.code = 200
               /\ response.body.status = "alive"
        /\ pc = "respondedFailure" =>
               /\ response.code = 503
               /\ response.body.status = "not alive"
               /\ response.body.error \in ProcessErrors
        /\ \A table \in [Names -> HandleStates \cup {Absent}] :
               \E o \in {"ok"} \cup ProcessErrors :
                   /\ response = LivenessResponse(o, table)
                   /\ o = "ok" <=> pc = "responded"

\* alive although no instance is loaded
C18_Witness ==
    /\ caller = "getLiveness"
    /\ pc = "responded"
    /\ response.code = 200
    /\ \A n \in Names : waInstances[n] = Absent

(***************************************************************************)
(* Claims about the probes (under Spec)                                    *)
(***************************************************************************)
\* C19: with the cache configured disabled, checkRedisHealth reports
\* 'disabled' without having issued any cache operation (no set, get or
\* delete, so no key written), and the result carries neither a response
\* time nor an error.
C19_DisabledCacheUntouched ==
    /\ (pc \in {"stats", "build"} /\ redisHealth.status = "disabled") =>
           /\ cacheOps = <<>>
           /\ redisHealth = [status |-> "disabled", responseTime |-> Absent,
                             error |-> NoMsg]
    /\ (Returned /\ healthStatus.redis.status = "disabled") =>
           /\ healthStatus.redis.responseTime = Absent
           /\ healthStatus.redis.error = NoMsg
    /\ cacheOps # <<>> => pc \in {"set", "get", "delete", "stats", "build"}

\* the cache probe has just answered 'disabled'
C19_Witness ==
    /\ pc = "stats"
    /\ redisHealth.status = "disabled"
    /\ cacheOps = <<>>

\* the cache operations issued when the operation awaited at pc settles
OpsUpTo(at) ==
    CASE at = "set" -> <<"set">>
      [] at = "get" -> <<"set", "get">>
      [] at = "delete" -> <<"set", "get", "delete">>

\* C20: a failure of the database round trip, or of one of cache set, get and
\* delete, is captured inside its own probe: the probe's field has status
\* 'error' with the message of the failure, nothing reaches the catch of
\* getHealthStatus, the cache steps after the failing one are not issued,
\* and the other probe runs all the same: the result of the database probe
\* is left as it was by the cache probe, and after the database probe the
\* cache probe can still give each of its answers.
C20_ProbeFailuresCaptured ==
    /\ [](pc = "redis" =>
             /\ databaseHealth.status \in {"connected", "error"}
             /\ databaseHealth.status = "error" => databaseHealth.error \in DbErrors
             /\ ENABLED (checkRedisHealth /\ redisHealth' = RedisDisabled)
             /\ ENABLED (checkRedisHealth /\ pc' = "set"))
    /\ [][/\ (pc = "db" /\ pc' # "db") =>
                 /\ pc' = "redis"
                 /\ caught' = NoMsg
          /\ (pc \in {"set", "get", "delete"} /\ pc' # pc) =>
                 /\ caught' = NoMsg
                 /\ databaseHealth' = databaseHealth
                 /\ redisHealth'.status = "error" =>
                        /\ pc' = "stats"
                        /\ redisHealth'.error \in CacheErrors
                        /\ cacheOps' = OpsUpTo(pc)
                 /\ pc' = "stats" => redisHealth'.status \in {"connected", "error"}
          /\ (pc = "stats" /\ pc' = "build") =>
                 /\ redisHealth' = redisHealth
                 /\ databaseHealth' = databaseHealth
         ]_vars

\* the database round trip failed, cache.get failed after it: both are
\* reported, and cache.delete was not issued
C20_Witness ==
    /\ pc = "build"
    /\ databaseHealth.status = "error"
    /\ databaseHealth.error = "Connection failed"
    /\ redisHealth.status = "error"
    /\ redisHealth.error = "Redis connection failed"
    /\ cacheOps = <<"set", "get">>

(***************************************************************************)
(* Further claims about the aggregator and its surface                     *)
(***************************************************************************)
\* C21: getHealthStatus and getMetrics never mutate registry state: no step
\* of an invocation, on the normal path or on the fallback path, changes the
\* instance table (its names, its handles, their connection states) or the
\* store.
C21_AggregatorReadsOnly ==
    [][(hvars' # hvars) => (waInstances' = waInstances /\ store' = store)]_vars

\* the fallback status, with zero counts, was rendered while the table held
\* a connected instance
C21_Witness ==
    /\ caller = "getMetrics"
    /\ pc = "rendered"
    /\ caught # NoMsg
    /\ healthStatus.instances.total = 0
    /\ \E n \in Names : waInstances[n] = "open"

(***************************************************************************)
(* Claims about the cache probe (under CacheSpec and CacheLiveSpec)        *)
(***************************************************************************)
\* C22: the key the cache probe writes is unique per invocation: no two
\* invocations, one after the other or overlapping, use the same key, and so
\* the delete of one invocation never removes the key another invocation has
\* written and not yet read.
C22_ProbeKeysUnique ==
    /\ [](\A i, j \in Probes :
             (i # j /\ probes[i].pc # "idle" /\ probes[j].pc # "idle") =>
                 probes[i].testKey # probes[j].testKey)
    /\ [][\A i \in Probes :
             (probes[i].pc = "delete" /\ probes'[i].pc = "done"
                  /\ cache' # cache) =>
                 ~\E j \in Probes \ {i} :
                     /\ probes[j].pc = "get"
                     /\ probes[j].testKey = probes[i].testKey
         ]_vars

\* the instants the clock passes through, and the keys named after them
Instants == {b * 1000 + a : a \in 0..MaxMs, b \in 0..MaxSeconds}
ProbeKeys == {TestKey(t) : t \in Instants}

\* C27: orphaned probe keys expire by themselves: every key held by the cache
\* has a finite time-to-live of at most the second the probe asks for, and
\* whatever the probe's outcome a key that is held is eventually absent; the
\* keys held are thereby never more than the probes of the last second wrote.
C27_ProbeKeysExpire ==
    /\ [](\A e \in cache :
             /\ e.key \in ProbeKeys
             /\ e.expiresAt > now
             /\ e.expiresAt <= now + TtlSeconds * 1000)
    /\ \A k \in ProbeKeys : Held(cache, k) ~> ~Held(cache, k)

\* a probe wrote and read its key and failed to delete it; a second later
\* the key is gone
C27_Witness ==
    \E i \in Probes :
        /\ probes[i].pc = "done"
        /\ probes[i].got = "test"
        /\ probes[i].result.status = "error"
        /\ ~Held(cache, probes[i].testKey)
        /\ probes[i].testKey = TestKey(0)
        /\ now >= TtlSeconds * 1000
        /\ \A j \in Probes \ {i} : probes[j].pc = "idle"

\* C30: the cache probe reports 'connected' whenever set, get and delete all
\* complete without raising, whatever the get returned: it reports 'error'
\* only with the message of an operation that raised, also when the read-back
\* found no value.
C30_ReadBackIgnored ==
    \A i \in Probes :
        probes[i].pc = "done" =>
            \/ probes[i].result = RedisConnected
            \/ /\ probes[i].result.status = "error"
               /\ probes[i].result.error \in CacheErrors

\* the read-back found nothing, the probe reports 'connected'
C30_Witness ==
    \E i \in Probes :
        /\ probes[i].pc = "done"
        /\ probes[i].got = "null"
        /\ probes[i].result.status = "connected"

(***************************************************************************)
(* Claims about successive health checks (under PollSpec)                  *)
(***************************************************************************)
\* C23: the HealthStatus is recomputed on every call and never cached: a call
\* starts with no probe result, no caught error and no status of an earlier
\* call in hand, and the database, redis and status fields it resolves to are
\* those of the probes settled during this call (or the fallback built from
\* the error caught during it), whatever the preceding call returned; so the
\* call after a failure or a recovery reports the new condition.
C23_RecomputedEveryCall ==
    /\ [](pc = "db" => /\ databaseHealth = NoProbe
                       /\ redisHealth = NoProbe
                       /\ caught = NoMsg
                       /\ healthStatus = NoResult)
    /\ [][(pc = "build" /\ pc' = "returned") =>
             /\ healthStatus'.database = databaseHealth
             /\ healthStatus'.redis = redisHealth
             /\ healthStatus'.status =
                    determineOverallStatus(databaseHealth, redisHealth)]_vars
    /\ [][(pc = "catch" /\ pc' = "returned") =>
             healthStatus' = FallbackStatus(caught)]_vars

\* the call after a recovery: the preceding call reported the database in
\* error and the cache connected, this one reports the database connected
\* and the cache in error
C23_Witness ==
    /\ caller = "direct"
    /\ pc = "returned"
    /\ previous # NoResult
    /\ previous.status = "unhealthy"
    /\ previous.database.status = "error"
    /\ previous.redis.status = "connected"
    /\ healthStatus.status = "degraded"
    /\ healthStatus.database.status = "connected"
    /\ healthStatus.redis.status = "error"

(***************************************************************************)
(* Claims about SettingsService.find (under SettingsSpec)                  *)
(***************************************************************************)
\* C24: for an instance present in the registry, find returns null whenever
\* findSettings resolves to null, to undefined or to an empty record, and
\* whenever findSettings rejects (the error is not propagated); when
\* findSettings resolves to a record with at least one field, find returns
\* that record unchanged.
C24_FindCollapsesToNull ==
    (spc = "done" /\ sfound # NoOutcome) =>
        /\ sresult.kind = "resolved"
        /\ (sfound.kind = "rejected" \/ sfound.value \in {Null, Undefined, Object(<<>>)})
              => sresult.value = Null
        /\ (sfound.kind = "resolved" /\ sfound.value \in SettingsRecords
              /\ sfound.value # Object(<<>>))
              => sresult.value = sfound.value

\* findSettings resolved to the empty record and find returned null
C24_Witness ==
    /\ spc = "done"
    /\ sfound = Resolved(Object(<<>>))
    /\ sresult = Resolved(Null)

(***************************************************************************)
(* Claims about the instance count (under Spec)                            *)
(***************************************************************************)
\* the names of the instance table whose handle is in one of the states
NamesIn(states) == {n \in Names : waInstances[n] \in states}

\* C25: when getInstanceStatistics reads the instance table, total is the
\* number of names in it, active is exactly the number of handles whose
\* connection state is 'open', and every other handle ('close', 'connecting'
\* or no connection status at all) is counted as inactive.
C25_OnlyOpenIsActive ==
    [][(pc = "stats" /\ pc' = "build") =>
         /\ instanceStats'.total = Cardinality({n \in Names : waInstances[n] # Absent})
         /\ instanceStats'.active = Cardinality(NamesIn({"open"}))
         /\ instanceStats'.inactive =
                Cardinality(NamesIn({"close"})) + Cardinality(NamesIn({"connecting"}))
                    + Cardinality(NamesIn({NoState}))]_vars

\* a connecting handle and a handle without connection status, both counted
\* inactive
C25_Witness ==
    /\ pc = "build"
    /\ \E n, m \in Names : waInstances[n] = "connecting" /\ waInstances[m] = NoState
    /\ instanceStats = [total |-> 2, active |-> 0, inactive |-> 2]

(***************************************************************************)
(* Claims about the order of the probes (under Spec)                       *)
(***************************************************************************)
\* the orders in which two concurrently launched probes may complete
Orders == {<<"database", "redis">>, <<"redis", "database">>}

\* the results of two concurrent probes, filed as they complete
Collected(order, db, redis) ==
    LET none == [database |-> NoProbe, redis |-> NoProbe]
        first == [none EXCEPT ![order[1]] =
                     IF order[1] = "database" THEN db ELSE redis]
    IN  [first EXCEPT ![order[2]] = IF order[2] = "database" THEN db ELSE redis]

\* the verdict of a concurrent execution: the precedence policy applied once
\* both results are filed
ConcurrentVerdict(order, db, redis) ==
    LET got == Collected(order, db, redis)
    IN  [status |-> IF got.database.status # "connected" THEN "unhealthy"
                    ELSE IF got.redis.status = "error" THEN "degraded"
                    ELSE "healthy",
         database |-> got.database.status,
         redis |-> got.redis.status]

Verdict(h) ==
    [status |-> h.status, database |-> h.database.status, redis |-> h.redis.status]

C28_HealthAnswersOnRejection ==
    /\ [](pc = "respondedFailure" /\ caller = "getHealth" =>
            /\ response.code = 503
            /\ response.body.status = "unhealthy"
            /\ response.body.database.status = "error"
            /\ response.body.database.error = "Health check failed"
            /\ response.body.redis.status = "error"
            /\ response.body.redis.error = "Health check failed"
            /\ response.body.instances = [total |-> 0, active |-> 0, inactive |-> 0])
    /\ [](pc = "rejected" /\ caller = "getHealth" => ENABLED getHealth)
    /\ [][(pc = "rejected" /\ caller = "getHealth" /\ pc' # pc) =>
             (pc' = "respondedFailure" /\ response' # NoResponse)]_vars

\* getHealth has answered a rejection of getHealthStatus while the instance
\* table holds an open handle
C28_Witness ==
    /\ pc = "respondedFailure"
    /\ caller = "getHealth"
    /\ rejection \in ProcessErrors
    /\ response.code = 503
    /\ response.body.instances.total = 0
    /\ \E n \in Names : waInstances[n] = "open"

(***************************************************************************)
(* Claims about the up samples (under MetricsSpec)                         *)
(***************************************************************************)
\* the values the text gives for the series of a name
SamplesOf(lines, name) ==
    {lines[i][2] : i \in {j \in 1..Len(lines) :
                             Len(lines[j]) = 2 /\ lines[j][1] = name}}

\* C29: in the metrics text the database-up sample is 1 exactly when the
\* database status is 'connected' and 0 otherwise, and the cache-up sample
\* is 1 exactly when the cache status is 'connected' and 0 otherwise (a
\* disabled cache is exported as 0); getMetrics never rejects with the error
\* of a failed probe: such a failure ends up as a 0 sample in the text.
C29_UpSamples ==
    /\ (pc = "rendered" /\ caller = "getMetrics") =>
          /\ SamplesOf(metrics, "evolution_api_database_up") =
                 {IF healthStatus.database.status = "connected" THEN "1" ELSE "0"}
          /\ SamplesOf(metrics, "evolution_api_redis_up") =
                 {IF healthStatus.redis.status = "connected" THEN "1" ELSE "0"}
    /\ pc = "metricsRejected" => rejection \notin DbErrors \cup CacheErrors
    /\ (pc = "returned" /\ caller = "getMetrics") => ENABLED renderMetrics

\* a healthy status with the cache switched off, exported with cache-up 0
C29_Witness ==
    /\ pc = "rendered"
    /\ caller = "getMetrics"
    /\ healthStatus.status = "healthy"
    /\ healthStatus.redis.status = "disabled"
    /\ SamplesOf(metrics, "evolution_api_redis_up") = {"0"}
    /\ SamplesOf(metrics, "evolution_api_database_up") = {"1"}

====
